---- MODULE Spec2Model ----
(***************************************************************************)
(* A model of the framing / transport layer of weiheng-tech/modbus:        *)
(*   - the connection lifecycle (TcpTransporter: Mu, Conn, closeTimer,     *)
(*     LastActivity) with the Send of the TCP transport and of the         *)
(*     serial-over-TCP transport, the public Connect and Close and the     *)
(*     idle-timer callback closeIdle, run by concurrent callers;           *)
(*   - the serial port (SerialPort: Connect with its parity and read       *)
(*     timeout steps, Close), driven through Connect and Close;            *)
(*   - the TCP packager (Encode / Verify / Decode, transaction ids) and    *)
(*     the vendor serial packager (dataBlock / Encode / Verify / Decode /  *)
(*     removeElement);                                                     *)
(*   - the line delay of the serial-over-TCP Send (calculateDelay).        *)
(* Time is kept relative: sinceActivity is time.Now().Sub(LastActivity),   *)
(* saturated one tick above the idle timeout (the code only compares it    *)
(* with IdleTimeout), and closeTimer.left is the time until the timer      *)
(* fires.                                                                  *)
(***************************************************************************)
EXTENDS Integers, Sequences, FiniteSets, TLC

VARIABLES
    variant,            \* "tcp" (tcpTransporter), "rtuOverTcp" (rtuOverTcpTransporter)
                        \* or "serial" (SerialPort)
    Parity,             \* Config.Parity of the serial port
    BaudRate,           \* rtuOverTcpTransporter.BaudRate
    line,               \* the line delay of a serial-over-TCP Send: position, chars, sleep
    resp,               \* per caller: what Send saw of the request and the response
    IdleTimeout,        \* TcpTransporter.IdleTimeout, in ticks
    QueryDelayDuration, \* QueryDelayDuration of the serial-over-TCP port, in ticks
    Mu,                 \* holder of TcpTransporter.Mu, or "unlocked"
    Conn,               \* TcpTransporter.Conn: nil or a handle
    opened,             \* handles the operating system holds open
    sinceActivity,      \* time.Now().Sub(LastActivity), saturated
    closeTimer,         \* TcpTransporter.closeTimer
    pending,            \* closeIdle callbacks started by the timer, waiting for Mu
    op,                 \* per caller: the public operation it is in
    pc,                 \* per caller: its position in that operation
    err,                \* per caller: the error of the operation, "nil" if none
    conn,               \* per caller: the local conn of Connect (dialed, not yet stored)
    n,                  \* per caller: bytes of the response read so far by Send
    readTo,             \* per caller: where the second read of Send ends (length, bytesToRead)
    lastAccess,         \* the last access to Conn: made holding Mu or not
    lastIdle,           \* the last run of closeIdle: idle time seen, closed or not
    \* ---- packagers ----
    handler,            \* the packager of the handler: "tcp", "en" (vendor serial) or "none"
    transactionId,      \* tcpPackager.transactionId (uint32)
    issued,             \* transaction ids handed to Encode calls, in the order of the atomic add
    enc,                \* per caller: position in tcpPackager.Encode and its local transactionId
    SlaveId,            \* packager SlaveId (unit id)
    GunId,              \* enRtuPackager.GunId (selector byte)
    pdu,                \* the ProtocolDataUnit given to the last Encode
    built,              \* how pdu.Data was built: by dataBlock (with its values) or by the caller
    adu,                \* the frame returned by the last Encode
    encErr,             \* the error returned by the last Encode
    rx,                 \* the frame given to the last Decode
    out,                \* what the last Decode did: returned (pdu, err) or panicked
    verified            \* what the last Verify did, and the response it was given

sessionVars == <<variant, Parity, BaudRate, line, resp, IdleTimeout, QueryDelayDuration, Mu, Conn, opened,
                 sinceActivity, closeTimer, pending, op, pc, err, conn, n, readTo,
                 lastAccess, lastIdle>>
packVars == <<handler, transactionId, issued, enc, SlaveId, GunId, pdu, built,
              adu, encErr, rx, out, verified>>
vars == <<sessionVars, packVars>>

----------------------------------------------------------------------------
(* Bounds of the model *)

\* the positive idle timeout of the sessions, in ticks
IdleT == 2
\* handles the operating system can hold open at once
MaxHandles == 2
\* closeIdle callbacks that can wait for the lock at once
MaxPending == 1

Threads == {"t1", "t2"}
Variants == {"tcp", "rtuOverTcp", "serial"}
\* Config.Parity: none, even, odd, and two values Connect does not accept
Parities == {"N", "E", "O", "", "X"}
\* no serial-over-TCP Send has reached its line delay
NoLine == [pc |-> "idle", chars |-> 0, us |-> 0]

\* the nil connection handle
nil == 0
Handles == 1..MaxHandles

Min(a, b) == IF a < b THEN a ELSE b

----------------------------------------------------------------------------
(* Program constants *)

tcpHeaderSize == 7
tcpMaxLength == 260
rtuMinSize == 4
rtuMaxSize == 256
rtuExceptionSize == 5

----------------------------------------------------------------------------
(* Connection lifecycle: src/tcp.go *)

\* sync.Mutex: Lock() returns only when nobody holds the mutex
CanLockBroken(mu) == TRUE
CanLock(mu) == mu = "unlocked"

\* the idle test of closeIdle: idle >= mb.IdleTimeout
IdleExpiredBroken(idle, timeout) == TRUE
IdleExpired(idle, timeout) == idle >= timeout

\* net.Dialer.Dial: the handle a successful dial returns (lowest free descriptor)
FreeHandles == Handles \ opened
Dial == CHOOSE h \in FreeHandles : \A g \in FreeHandles : h <= g

\* time.Timer after AfterFunc(d, f) or Reset(d)
Armed(d) == [created |-> TRUE, active |-> TRUE, left |-> d]
NoTimer == [created |-> FALSE, active |-> FALSE, left |-> 0]

\* StartCloseTimer: the value of closeTimer after the call
StartCloseTimer(timer) ==
    IF IdleTimeout <= 0 THEN timer ELSE Armed(IdleTimeout)

\* ConnClose: closes the handle if there is one and sets Conn to nil.
\* Caller holds Mu.
ConnCloseBroken ==
    /\ opened' = opened \ {Conn}
    /\ Conn' = Conn
ConnClose ==
    /\ opened' = opened \ {Conn}
    /\ Conn' = nil

Access(t) == [locked |-> (Mu = t)]

\* the return of Connect, to Send or to the public caller
AfterConnect(t, e) ==
    /\ err' = [err EXCEPT ![t] = e]
    /\ pc' = [pc EXCEPT ![t] =
                IF op[t] = "Send" THEN (IF e = "nil" THEN "mark" ELSE "ret")
                ELSE "idle"]

\* a caller calls Send: it waits for Mu (tcp_client.go:127, part_000:34);
\* the serial port is driven through Connect and Close only
SendCall(t) ==
    /\ pc[t] = "idle"
    /\ variant # "serial"
    /\ op' = [op EXCEPT ![t] = "Send"]
    /\ pc' = [pc EXCEPT ![t] = "lock"]
    /\ err' = [err EXCEPT ![t] = "nil"]
    /\ n' = [n EXCEPT ![t] = 0]
    /\ readTo' = [readTo EXCEPT ![t] = 0]
    /\ UNCHANGED <<variant, Parity, BaudRate, line, resp, IdleTimeout,
                   QueryDelayDuration, Mu, Conn, opened,
                   sinceActivity, closeTimer, pending, conn, lastAccess, lastIdle>>
    /\ UNCHANGED packVars

\* Send entering its body without having taken Mu
SendLockBroken(t) ==
    /\ op[t] = "Send" /\ pc[t] = "lock"
    /\ pc' = [pc EXCEPT ![t] = "connect"]
    /\ UNCHANGED <<variant, Parity, BaudRate, line, resp, IdleTimeout,
                   QueryDelayDuration, Mu, Conn, opened,
                   sinceActivity, closeTimer, pending, op, err, conn, n, readTo,
                   lastAccess, lastIdle>>
    /\ UNCHANGED packVars

\* mb.Mu.Lock() of Send
SendLock(t) ==
    /\ op[t] = "Send" /\ pc[t] = "lock"
    /\ CanLock(Mu)
    /\ Mu' = t
    /\ pc' = [pc EXCEPT ![t] = "connect"]
    /\ UNCHANGED <<variant, Parity, BaudRate, line, resp, IdleTimeout,
                   QueryDelayDuration, Conn, opened,
                   sinceActivity, closeTimer, pending, op, err, conn, n, readTo,
                   lastAccess, lastIdle>>
    /\ UNCHANGED packVars

\* a caller calls the public Connect: no lock is taken (tcp.go:53)
ConnectCall(t) ==
    /\ pc[t] = "idle"
    /\ op' = [op EXCEPT ![t] = "Connect"]
    /\ pc' = [pc EXCEPT ![t] = "connect"]
    /\ err' = [err EXCEPT ![t] = "nil"]
    /\ UNCHANGED <<variant, Parity, BaudRate, line, resp, IdleTimeout,
                   QueryDelayDuration, Mu, Conn, opened,
                   sinceActivity, closeTimer, pending, conn, n, readTo,
                   lastAccess, lastIdle>>
    /\ UNCHANGED packVars

\* the test of Connect: a handle is opened only when there is none
\* (tcp.go:54, serial.go:217)
NeedsDialBroken(c) == TRUE
NeedsDial(c) == c = nil

\* SerialPort.Connect starts by translating Config.Parity and returns an
\* error for any other value than N, E, O (serial.go:205-215)
ParityError == variant = "serial" /\ Parity \notin {"N", "E", "O"}

\* Connect, first half: if mb.Conn == nil, dial or open the port
\* (tcp.go:54-59, serial.go:205-226)
ConnectDial(t) ==
    /\ pc[t] = "connect"
    /\ \/ /\ ParityError
          /\ AfterConnect(t, "parity")
          /\ UNCHANGED <<opened, conn, lastAccess>>
       \/ /\ ~ParityError
          /\ ~NeedsDial(Conn)
          /\ lastAccess' = Access(t)
          /\ AfterConnect(t, "nil")
          /\ UNCHANGED <<opened, conn>>
       \/ /\ ~ParityError
          /\ NeedsDial(Conn)
          /\ FreeHandles # {}
          /\ lastAccess' = Access(t)
          /\ opened' = opened \cup {Dial}
          /\ conn' = [conn EXCEPT ![t] = Dial]
          /\ pc' = [pc EXCEPT ![t] = "assign"]
          /\ UNCHANGED err
       \/ /\ ~ParityError
          /\ NeedsDial(Conn)
          /\ lastAccess' = Access(t)
          /\ AfterConnect(t, "dial")
          /\ UNCHANGED <<opened, conn>>
    /\ UNCHANGED <<variant, Parity, BaudRate, line, resp, IdleTimeout,
                   QueryDelayDuration, Mu, Conn,
                   sinceActivity, closeTimer, pending, op, n, readTo, lastIdle>>
    /\ UNCHANGED packVars

\* Connect, second half: mb.Conn = conn (tcp.go:60); the serial port first
\* sets the read timeout of the port it opened and returns the error of
\* that, the port left open and stored nowhere (serial.go:228-232)
ConnectAssign(t) ==
    /\ pc[t] = "assign"
    /\ conn' = [conn EXCEPT ![t] = nil]
    /\ \/ /\ lastAccess' = Access(t)
          /\ Conn' = conn[t]
          /\ AfterConnect(t, "nil")
       \/ /\ variant = "serial"
          /\ AfterConnect(t, "config")
          /\ UNCHANGED <<Conn, lastAccess>>
    /\ UNCHANGED <<variant, Parity, BaudRate, line, resp, IdleTimeout,
                   QueryDelayDuration, Mu, opened,
                   sinceActivity, closeTimer, pending, op, n, readTo, lastIdle>>
    /\ UNCHANGED packVars

\* Send: mark the activity, arm the idle timer, set the deadline
\* (tcp_client.go:135-145, part_000:47-58)
SendMark(t) ==
    /\ op[t] = "Send" /\ pc[t] = "mark"
    /\ sinceActivity' = 0
    /\ closeTimer' = StartCloseTimer(closeTimer)
    /\ lastAccess' = Access(t)
    /\ \/ /\ pc' = [pc EXCEPT ![t] = IF Conn = nil THEN "panic" ELSE "write"]
          /\ UNCHANGED <<Conn, opened, err>>
       \/ /\ Conn # nil
          /\ ConnClose
          /\ err' = [err EXCEPT ![t] = "deadline"]
          /\ pc' = [pc EXCEPT ![t] = "ret"]
    /\ UNCHANGED <<variant, Parity, BaudRate, line, resp, IdleTimeout,
                   QueryDelayDuration, Mu, pending, op,
                   conn, n, readTo, lastIdle>>
    /\ UNCHANGED packVars

\* Send: write the request; a write error closes the connection
\* (tcp_client.go:147-151, part_000:61-65)
SendWrite(t) ==
    /\ op[t] = "Send" /\ pc[t] = "write"
    /\ lastAccess' = Access(t)
    /\ \/ /\ pc' = [pc EXCEPT ![t] = IF Conn = nil THEN "panic" ELSE "read"]
          /\ UNCHANGED <<Conn, opened, err>>
       \/ /\ Conn # nil
          /\ ConnClose
          /\ err' = [err EXCEPT ![t] = "write"]
          /\ pc' = [pc EXCEPT ![t] = "ret"]
    /\ UNCHANGED <<variant, Parity, BaudRate, line, resp, IdleTimeout,
                   QueryDelayDuration, Mu, sinceActivity,
                   closeTimer, pending, op, conn, n, readTo, lastIdle>>
    /\ UNCHANGED packVars

\* lengths a response header can declare (bytes 4-5 of the header)
HeaderLengths == {0, 1, 254, 255}
\* what a Send that has read nothing knows of the response: the function
\* code of the request, the function byte of the response, the estimate
\* bytesToRead when it is compared with the bytes read (part_000:83), the
\* length the TCP header declares, whether Flush was called
NoResp == [function |-> 0, data1 |-> 0, bytesToRead |-> 0, length |-> 0,
           flushed |-> FALSE]
\* Flush: the bytes already buffered on the connection are read and
\* discarded; the connection stays open
Flush(r) == [r EXCEPT !.flushed = TRUE]

\* Send of the TCP transport accepting any declared length above zero
SendReadHeaderBroken(t) ==
    /\ op[t] = "Send" /\ pc[t] = "read" /\ variant = "tcp"
    /\ lastAccess' = Access(t)
    /\ \/ /\ err' = [err EXCEPT ![t] = "readHeader"]
          /\ pc' = [pc EXCEPT ![t] = "ret"]
          /\ UNCHANGED <<n, readTo, resp>>
       \/ \E l \in HeaderLengths :
            /\ n' = [n EXCEPT ![t] = tcpHeaderSize]
            /\ IF l <= 0
               THEN /\ resp' = [resp EXCEPT ![t] = Flush([NoResp EXCEPT !.length = l])]
                    /\ err' = [err EXCEPT ![t] = "zeroLength"]
                    /\ pc' = [pc EXCEPT ![t] = "ret"]
                    /\ UNCHANGED readTo
               ELSE /\ resp' = [resp EXCEPT ![t] = [NoResp EXCEPT !.length = l]]
                    /\ readTo' = [readTo EXCEPT ![t] = l + tcpHeaderSize - 1]
                    /\ pc' = [pc EXCEPT ![t] = "body"]
                    /\ UNCHANGED err
    /\ UNCHANGED <<variant, Parity, BaudRate, line, IdleTimeout,
                   QueryDelayDuration, Mu, Conn, opened,
                   sinceActivity, closeTimer, pending, op, conn, lastIdle>>
    /\ UNCHANGED packVars

\* Send of the TCP transport: read the header, check the declared length
\* (tcp_client.go:152-168); a read error returns without closing
SendReadHeader(t) ==
    /\ op[t] = "Send" /\ pc[t] = "read" /\ variant = "tcp"
    /\ lastAccess' = Access(t)
    /\ \/ /\ err' = [err EXCEPT ![t] = "readHeader"]
          /\ pc' = [pc EXCEPT ![t] = "ret"]
          /\ UNCHANGED <<n, readTo, resp>>
       \/ \E l \in HeaderLengths :
            /\ n' = [n EXCEPT ![t] = tcpHeaderSize]
            /\ IF l <= 0
               THEN /\ resp' = [resp EXCEPT ![t] = Flush([NoResp EXCEPT !.length = l])]
                    /\ err' = [err EXCEPT ![t] = "zeroLength"]
                    /\ pc' = [pc EXCEPT ![t] = "ret"]
                    /\ UNCHANGED readTo
               ELSE IF l > tcpMaxLength - (tcpHeaderSize - 1)
               THEN /\ resp' = [resp EXCEPT ![t] = Flush([NoResp EXCEPT !.length = l])]
                    /\ err' = [err EXCEPT ![t] = "overLength"]
                    /\ pc' = [pc EXCEPT ![t] = "ret"]
                    /\ UNCHANGED readTo
               ELSE /\ resp' = [resp EXCEPT ![t] = [NoResp EXCEPT !.length = l]]
                    /\ readTo' = [readTo EXCEPT ![t] = l + tcpHeaderSize - 1]
                    /\ pc' = [pc EXCEPT ![t] = "body"]
                    /\ UNCHANGED err
    /\ UNCHANGED <<variant, Parity, BaudRate, line, IdleTimeout,
                   QueryDelayDuration, Mu, Conn, opened,
                   sinceActivity, closeTimer, pending, op, conn, lastIdle>>
    /\ UNCHANGED packVars

\* Send of the TCP transport: read the body (tcp_client.go:170-176)
SendReadBody(t) ==
    /\ op[t] = "Send" /\ pc[t] = "body"
    /\ lastAccess' = Access(t)
    /\ \/ /\ err' = [err EXCEPT ![t] = "readBody"]
          /\ UNCHANGED n
       \/ /\ n' = [n EXCEPT ![t] = readTo[t]]
          /\ UNCHANGED err
    /\ pc' = [pc EXCEPT ![t] = "ret"]
    /\ UNCHANGED <<variant, Parity, BaudRate, line, resp, IdleTimeout,
                   QueryDelayDuration, Mu, Conn, opened,
                   sinceActivity, closeTimer, pending, op, conn, readTo, lastIdle>>
    /\ UNCHANGED packVars

\* function codes of the requests sent over serial-over-TCP
RtuFunctions == {3, 16}
\* x & 0x80 on a byte
And80(x) == IF x >= 128 THEN 128 ELSE 0
\* function bytes a response to a request of function f can carry
RespFunctions(f) == {f, f + 128, And80(f)}
\* response lengths calculateResponseLength can estimate
Estimates == {4, 5, 9, 257}
\* bytes the first read can deliver
FirstReads == {4, 5, 9}

\* Send of serial-over-TCP: sleep the line delay, read the minimum size,
\* decide on the second read (part_000:66-97); a read error returns
\* without closing
SendReadMin(t) ==
    /\ op[t] = "Send" /\ pc[t] = "read" /\ variant = "rtuOverTcp"
    /\ lastAccess' = Access(t)
    /\ \/ /\ err' = [err EXCEPT ![t] = "readMin"]
          /\ pc' = [pc EXCEPT ![t] = "ret"]
          /\ UNCHANGED <<n, readTo, resp>>
       \/ \E function \in RtuFunctions, bytesToRead \in Estimates, n0 \in FirstReads :
          \E data1 \in RespFunctions(function) :
            LET functionFail == And80(function) IN
            /\ n' = [n EXCEPT ![t] = n0]
            /\ resp' = [resp EXCEPT ![t] =
                         [NoResp EXCEPT !.function = function, !.data1 = data1,
                                        !.bytesToRead =
                                            IF data1 = function
                                            THEN bytesToRead ELSE 0]]
            /\ UNCHANGED err
            /\ IF data1 = function
               THEN IF n0 < bytesToRead /\ bytesToRead > rtuMinSize
                                        /\ bytesToRead <= rtuMaxSize
                    THEN /\ readTo' = [readTo EXCEPT ![t] = bytesToRead]
                         /\ pc' = [pc EXCEPT ![t] = "rest"]
                    ELSE /\ pc' = [pc EXCEPT ![t] = "ret"]
                         /\ UNCHANGED readTo
               ELSE IF data1 = functionFail /\ n0 < rtuExceptionSize
               THEN /\ readTo' = [readTo EXCEPT ![t] = rtuExceptionSize]
                    /\ pc' = [pc EXCEPT ![t] = "rest"]
               ELSE /\ pc' = [pc EXCEPT ![t] = "ret"]
                    /\ UNCHANGED readTo
    /\ UNCHANGED <<variant, Parity, BaudRate, line, IdleTimeout,
                   QueryDelayDuration, Mu, Conn, opened,
                   sinceActivity, closeTimer, pending, op, conn, lastIdle>>
    /\ UNCHANGED packVars

\* Send of serial-over-TCP: read the remainder (part_000:86-101)
SendReadRest(t) ==
    /\ op[t] = "Send" /\ pc[t] = "rest"
    /\ lastAccess' = Access(t)
    /\ \/ /\ err' = [err EXCEPT ![t] = "readRest"]
          /\ UNCHANGED n
       \/ /\ n' = [n EXCEPT ![t] = readTo[t]]
          /\ UNCHANGED err
    /\ pc' = [pc EXCEPT ![t] = "ret"]
    /\ UNCHANGED <<variant, Parity, BaudRate, line, resp, IdleTimeout,
                   QueryDelayDuration, Mu, Conn, opened,
                   sinceActivity, closeTimer, pending, op, conn, readTo, lastIdle>>
    /\ UNCHANGED packVars

\* mb.Mu.Unlock() of Send; the caller has the result and is idle again
Returned(t) ==
    /\ Mu' = "unlocked"
    /\ pc' = [pc EXCEPT ![t] = "idle"]
    /\ op' = [op EXCEPT ![t] = "none"]
    /\ err' = [err EXCEPT ![t] = "nil"]
    /\ n' = [n EXCEPT ![t] = 0]
    /\ readTo' = [readTo EXCEPT ![t] = 0]
    /\ resp' = [resp EXCEPT ![t] = NoResp]

\* Send returns: the deferred function sleeps the query delay
\* (serial-over-TCP, part_000:35-40) and unlocks Mu
SendReturn(t) ==
    /\ op[t] = "Send" /\ pc[t] = "ret"
    /\ IF variant = "rtuOverTcp" /\ QueryDelayDuration > 0
       THEN /\ pc' = [pc EXCEPT ![t] = "sleep"]
            /\ UNCHANGED <<Mu, op, err, n, readTo, resp>>
       ELSE Returned(t)
    /\ UNCHANGED <<variant, Parity, BaudRate, line, IdleTimeout,
                   QueryDelayDuration, Conn, opened,
                   sinceActivity, closeTimer, pending, conn, lastAccess, lastIdle>>
    /\ UNCHANGED packVars

\* the query delay is over: mb.Mu.Unlock() (part_000:39)
SendWake(t) ==
    /\ op[t] = "Send" /\ pc[t] = "sleep"
    /\ Returned(t)
    /\ UNCHANGED <<variant, Parity, BaudRate, line, IdleTimeout,
                   QueryDelayDuration, Conn, opened,
                   sinceActivity, closeTimer, pending, conn, lastAccess, lastIdle>>
    /\ UNCHANGED packVars

\* Close: lock, ConnClose, unlock (tcp.go:77-82, 107-113); the result of
\* the handle's Close is the error returned
Close(t) ==
    /\ pc[t] = "idle"
    /\ CanLock(Mu)
    /\ op' = [op EXCEPT ![t] = "Close"]
    /\ lastAccess' = [locked |-> TRUE]
    /\ ConnClose
    /\ \E e \in (IF Conn = nil THEN {"nil"} ELSE {"nil", "close"}) :
          err' = [err EXCEPT ![t] = e]
    /\ UNCHANGED <<variant, Parity, BaudRate, line, resp, IdleTimeout,
                   QueryDelayDuration, Mu, sinceActivity,
                   closeTimer, pending, pc, conn, n, readTo, lastIdle>>
    /\ UNCHANGED packVars

\* the runtime fires closeTimer: closeIdle starts on its own goroutine
TimerFire ==
    /\ closeTimer.active /\ closeTimer.left = 0
    /\ pending < MaxPending
    /\ closeTimer' = [closeTimer EXCEPT !.active = FALSE]
    /\ pending' = pending + 1
    /\ UNCHANGED <<variant, Parity, BaudRate, line, resp, IdleTimeout,
                   QueryDelayDuration, Mu, Conn, opened,
                   sinceActivity, op, pc, err, conn, n, readTo, lastAccess, lastIdle>>
    /\ UNCHANGED packVars

\* closeIdle: lock, recompute the idle time, close if it reached
\* IdleTimeout, unlock (tcp.go:116-128; serial.go:271-283 is the same)
closeIdle ==
    /\ pending > 0
    /\ CanLock(Mu)
    /\ pending' = pending - 1
    /\ IF IdleTimeout <= 0
       THEN UNCHANGED <<Conn, opened, lastIdle, lastAccess>>
       ELSE LET idle == sinceActivity IN
            IF IdleExpired(idle, IdleTimeout)
            THEN /\ ConnClose
                 /\ lastAccess' = [locked |-> TRUE]
                 /\ lastIdle' = [ran |-> TRUE, idle |-> idle, closed |-> (Conn # nil)]
            ELSE /\ UNCHANGED <<Conn, opened, lastAccess>>
                 /\ lastIdle' = [ran |-> TRUE, idle |-> idle, closed |-> FALSE]
    /\ UNCHANGED <<variant, Parity, BaudRate, line, resp, IdleTimeout,
                   QueryDelayDuration, Mu, sinceActivity,
                   closeTimer, op, pc, err, conn, n, readTo>>
    /\ UNCHANGED packVars

\* one tick of time passes
Tick ==
    /\ sinceActivity' = Min(sinceActivity + 1, IdleT + 1)
    /\ closeTimer' = IF closeTimer.active /\ closeTimer.left > 0
                     THEN [closeTimer EXCEPT !.left = @ - 1]
                     ELSE closeTimer
    /\ UNCHANGED <<variant, Parity, BaudRate, line, resp, IdleTimeout,
                   QueryDelayDuration, Mu, Conn, opened,
                   pending, op, pc, err, conn, n, readTo, lastAccess, lastIdle>>
    /\ UNCHANGED packVars

\* the packagers before any Encode
NoVerify == [kind |-> "none"]
NoPdu == [FunctionCode |-> 0, Data |-> <<>>]
PackIdle ==
    /\ handler = "none"
    /\ transactionId = [hi |-> 0, lo |-> 0]
    /\ issued = <<>>
    /\ enc = [t \in Threads |-> [pc |-> "idle", transactionId |-> [hi |-> 0, lo |-> 0]]]
    /\ SlaveId = 0
    /\ GunId = 0
    /\ pdu = NoPdu
    /\ built = [by |-> "none"]
    /\ adu = <<>>
    /\ encErr = "nil"
    /\ rx = <<>>
    /\ out = [kind |-> "none"]
    /\ verified = NoVerify

\* a session as the handler constructors leave it: no connection, no
\* timer, LastActivity the zero time (tcp_client.go:30-36, part_000:19-25)
Init ==
    /\ variant \in Variants
    /\ Parity \in (IF variant = "serial" THEN Parities ELSE {"E"})
    /\ BaudRate = 0
    /\ line = NoLine
    /\ resp = [t \in Threads |-> NoResp]
    /\ IdleTimeout \in {0, IdleT}
    /\ QueryDelayDuration \in (IF variant = "rtuOverTcp" THEN {0, 1} ELSE {0})
    /\ Mu = "unlocked"
    /\ Conn = nil
    /\ opened = {}
    /\ sinceActivity = IdleT + 1
    /\ closeTimer = NoTimer
    /\ pending = 0
    /\ op = [t \in Threads |-> "none"]
    /\ pc = [t \in Threads |-> "idle"]
    /\ err = [t \in Threads |-> "nil"]
    /\ conn = [t \in Threads |-> nil]
    /\ n = [t \in Threads |-> 0]
    /\ readTo = [t \in Threads |-> 0]
    /\ lastAccess = [locked |-> TRUE]
    /\ lastIdle = [ran |-> FALSE, idle |-> 0, closed |-> FALSE]
    /\ PackIdle

Next ==
    \/ \E t \in Threads :
         \/ SendCall(t) \/ SendLock(t) \/ ConnectCall(t) \/ ConnectDial(t)
         \/ ConnectAssign(t) \/ SendMark(t) \/ SendWrite(t)
         \/ SendReadHeader(t) \/ SendReadBody(t) \/ SendReadMin(t)
         \/ SendReadRest(t) \/ SendReturn(t) \/ SendWake(t) \/ Close(t)
    \/ TimerFire
    \/ closeIdle
    \/ Tick

Spec == Init /\ [][Next]_vars

\* the scheduling the Go runtime gives: a goroutine that can run does run,
\* a timer that is due fires, time passes; nobody is obliged to call
\* Send, Connect or Close
Step(t) ==
    \/ SendLock(t) \/ ConnectDial(t) \/ ConnectAssign(t) \/ SendMark(t)
    \/ SendWrite(t) \/ SendReadHeader(t) \/ SendReadBody(t) \/ SendReadMin(t)
    \/ SendReadRest(t) \/ SendReturn(t) \/ SendWake(t)

Fairness ==
    /\ \A t \in Threads : WF_vars(Step(t))
    /\ WF_vars(TimerFire)
    /\ WF_vars(closeIdle)
    /\ WF_vars(Tick)

FairSpec == Init /\ [][Next]_vars /\ Fairness

----------------------------------------------------------------------------
(* Claims about the sessions *)

\* errors of Send that come from the write or from a read of the response
IOErrors == {"write", "readHeader", "readBody", "readMin", "readRest"}

\* caller t is inside the body of Send (after Lock, before Unlock)
InSend(t) == op[t] = "Send" /\ pc[t] \notin {"idle", "lock"}

\* C1: when the write of the request or a read of the response failed,
\* Conn is nil at the moment Send returns.
C1_IOErrorClosesConn ==
    \A t \in Threads :
        (op[t] = "Send" /\ pc[t] = "ret" /\ err[t] \in IOErrors) => Conn = nil

\* C2: every read, assignment or clearing of Conn is made by a thread
\* that holds Mu.
C2_ConnAccessedUnderLock == lastAccess.locked

\* C3: a caller inside the body of Send holds Mu, and no other caller is
\* inside Send at the same time.
C3_SendsDoNotInterleave ==
    \A t \in Threads :
        InSend(t) => /\ Mu = t
                     /\ \A u \in Threads \ {t} : ~InSend(u)

\* a second caller waits for the lock while the first is at its last read
\* or in the query delay
C3_Witness ==
    \E t, u \in Threads :
        /\ t # u
        /\ pc[t] \in {"body", "rest", "sleep"}
        /\ op[u] = "Send" /\ pc[u] = "lock"

\* C4: a connected session with a positive idle timeout does not stay
\* connected for ever without a Send: it is closed, or a Send comes.
C4_IdleSessionCloses ==
    (IdleTimeout > 0 /\ Conn # nil) ~> (Conn = nil \/ \E t \in Threads : InSend(t))

\* C5: closeIdle closed the connection only when the idle time it computed
\* under the lock had reached IdleTimeout.
C5_IdleCloseOnlyWhenExpired ==
    lastIdle.closed => lastIdle.idle >= IdleTimeout

\* a stale firing: closeIdle ran after a later activity mark, saw an idle
\* time below IdleTimeout and left the connection open
C5_Witness ==
    /\ lastIdle.ran /\ ~lastIdle.closed
    /\ lastIdle.idle < IdleTimeout
    /\ Conn # nil

\* results of Connect other than success
ConnectErrors == {"parity", "dial", "config"}

\* C12: a Connect that finds the session Connected changes nothing and
\* returns success (no handle is opened); one that finds it Disconnected
\* opens a handle and stores it; a Connect that returns an error leaves
\* Conn as it was, which is nil when the open itself failed.
C12_ConnectContract ==
    [][\A t \in Threads :
        /\ (pc[t] = "connect" /\ pc'[t] # "connect" /\ Conn # nil) =>
              (Conn' = Conn /\ opened' = opened /\ err'[t] = "nil")
        /\ (pc[t] = "connect" /\ pc'[t] = "assign") =>
              (Conn = nil /\ conn'[t] \notin opened /\ opened' = opened \cup {conn'[t]})
        /\ (pc[t] = "assign" /\ pc'[t] # "assign" /\ err'[t] = "nil") =>
              (Conn' = conn[t] /\ Conn' \in opened')
        /\ (pc[t] \in {"connect", "assign"} /\ pc'[t] \notin {"connect", "assign"}
                /\ err'[t] \in ConnectErrors) =>
              (Conn' = Conn /\ (err'[t] \in {"parity", "dial"} => Conn' = nil))
    ]_vars

\* one caller's Connect failed to open and left the session Disconnected,
\* then another caller's Connect opened the handle
C12_Witness ==
    \E t, u \in Threads :
        /\ op[t] = "Connect" /\ pc[t] = "idle" /\ err[t] = "dial"
        /\ op[u] = "Connect" /\ pc[u] = "idle" /\ err[u] = "nil"
        /\ Conn # nil /\ opened = {Conn}

\* C13: after Close the handle is nil, whether or not closing it reported
\* an error; Close on a Disconnected session closes nothing and returns no
\* error; Close leaves the idle timer and the last activity alone.
C13_CloseIdempotent ==
    [][\A t \in Threads : Close(t) =>
        /\ Conn' = nil
        /\ Conn \notin opened'
        /\ Conn = nil => (opened' = opened /\ err'[t] = "nil")
        /\ closeTimer' = closeTimer
        /\ sinceActivity' = sinceActivity
        /\ pending' = pending
    ]_vars

\* a Close whose handle reported an error left the session Disconnected,
\* the idle timer still armed
C13_Witness ==
    \E t \in Threads :
        /\ op[t] = "Close" /\ err[t] = "close"
        /\ Conn = nil /\ opened = {}
        /\ closeTimer.active

\* C16: a serial-over-TCP Send that got an exception response (function
\* byte = request function with the high bit set) to a request whose
\* function is below 0x80 returns at least the 5 bytes of the exception frame.
C16_ExceptionReadToFive ==
    \A t \in Threads :
        (variant = "rtuOverTcp" /\ op[t] = "Send" /\ pc[t] = "ret" /\ err[t] = "nil"
            /\ resp[t].function \in RtuFunctions /\ resp[t].function < 128
            /\ resp[t].data1 = resp[t].function + 128)
        => n[t] >= rtuExceptionSize

C19_NoHandleLeak ==
    \A h \in opened :
        \/ h = Conn
        \/ \E t \in Threads : pc[t] = "assign" /\ conn[t] = h

\* C20: from the connect step of Send to its return or its own ConnClose,
\* Conn is not nil: Send never uses a nil handle.
C20_ConnSetInsideSend ==
    \A t \in Threads :
        /\ pc[t] # "panic"
        /\ (op[t] = "Send" /\ pc[t] \in {"mark", "write", "read", "body", "rest"})
              => Conn # nil

\* a Send is at its reads while the idle time has passed and the idle
\* callback waits for the lock
C20_Witness ==
    \E t \in Threads :
        /\ op[t] = "Send" /\ pc[t] \in {"read", "body", "rest"}
        /\ IdleTimeout > 0 /\ sinceActivity >= IdleTimeout
        /\ pending > 0

\* C21: a serial-over-TCP Send that got a response with the function code
\* of the request and returns without error returns at least as many bytes
\* as the estimated response length, and at most the 256 of its buffer.
C21_ReturnsEstimatedLength ==
    \A t \in Threads :
        (variant = "rtuOverTcp" /\ op[t] = "Send" /\ pc[t] = "ret" /\ err[t] = "nil"
            /\ resp[t].function \in RtuFunctions
            /\ resp[t].data1 = resp[t].function)
        => /\ n[t] >= resp[t].bytesToRead
           /\ n[t] <= rtuMaxSize

----------------------------------------------------------------------------
(* Bytes and integers *)

\* uint16(x) of an integer x: Go's truncating conversion
Uint16(x) == x % 65536

\* a uint32 is kept as its two 16-bit halves [hi, lo]
Uint32(hi, lo) == [hi |-> hi, lo |-> lo]
\* uint16(x) of a uint32 x
Uint16Of(x) == x.lo

\* binary.BigEndian.PutUint16 and Uint16
PutUint16(v) == <<v \div 256, v % 256>>
BigEndianUint16(hi, lo) == hi * 256 + lo

\* a slice of n bytes, all b
Fill(len, b) == [i \in 1..len |-> b]

\* the bitwise exclusive or of two numbers of `bits` bits
RECURSIVE BitXor(_, _, _)
BitXor(a, b, bits) ==
    IF bits = 0 THEN 0
    ELSE (((a % 2) + (b % 2)) % 2) + 2 * BitXor(a \div 2, b \div 2, bits - 1)

\* the checksum engine (crc.reset, crc.pushBytes, crc.value): register all
\* ones; per byte, xor into the low byte, then 8 rounds of shift right and,
\* if the bit shifted out was set, xor with 0xA001
crcRound(reg) ==
    IF reg % 2 = 1 THEN BitXor(reg \div 2, 40961, 16) ELSE reg \div 2
RECURSIVE crcRounds(_, _)
crcRounds(reg, rounds) ==
    IF rounds = 0 THEN reg ELSE crcRounds(crcRound(reg), rounds - 1)
\* pushBytes of bytes[i..j] into the register, the slice taken by halves
RECURSIVE crcPush(_, _, _, _)
crcPush(reg, bytes, i, j) ==
    IF i > j THEN reg
    ELSE IF i = j THEN crcRounds(BitXor(reg, bytes[i], 16), 8)
    ELSE LET mid == (i + j) \div 2
             left == crcPush(reg, bytes, i, mid)
         IN  IF left >= 0 THEN crcPush(left, bytes, mid + 1, j) ELSE left
crcValue(bytes) == crcPush(65535, bytes, 1, Len(bytes))

----------------------------------------------------------------------------
(* TCP packager: src/tcp_client.go *)

\* atomic.AddUint32(&v, delta): the new value, modulo 2^32
AtomicAddUint32Broken(v, delta) == v
AtomicAddUint32(v, delta) ==
    LET lo == v.lo + delta IN
    Uint32(Uint16(v.hi + (lo \div 65536)), Uint16(lo))

\* tcpPackager.Encode with the transaction id it drew: the frame
tcpEncode(id, unit, p) ==
    LET length == Uint16(1 + 1 + Len(p.Data)) IN
    PutUint16(Uint16Of(id)) \o PutUint16(0) \o PutUint16(length)
        \o <<unit, p.FunctionCode>> \o p.Data

\* tcpPackager.Decode
tcpDecodeBroken(a) ==
    [kind |-> "ret", err |-> "nil",
     pdu |-> [FunctionCode |-> a[tcpHeaderSize + 1],
              Data |-> SubSeq(a, tcpHeaderSize + 1, Len(a))]]
tcpDecode(a) ==
    IF Len(a) < 6 THEN [kind |-> "panic"]
    ELSE
    LET length == BigEndianUint16(a[5], a[6])
        pduLength == Len(a) - tcpHeaderSize
    IN  IF pduLength <= 0 \/ pduLength # Uint16(length - 1)
        THEN [kind |-> "ret", err |-> "length", pdu |-> NoPdu]
        ELSE [kind |-> "ret", err |-> "nil",
              pdu |-> [FunctionCode |-> a[tcpHeaderSize + 1],
                       Data |-> SubSeq(a, tcpHeaderSize + 2, Len(a))]]

\* tcpPackager.Verify: transaction id, protocol id, unit id, in this
\* order; binary.BigEndian.Uint16 and the index expressions panic on a
\* slice that is too short
tcpVerifyBroken(aduRequest, aduResponse) ==
    IF Len(aduResponse) < 4 \/ Len(aduRequest) < 4 THEN [kind |-> "panic"]
    ELSE IF BigEndianUint16(aduResponse[1], aduResponse[2])
                # BigEndianUint16(aduRequest[1], aduRequest[2])
    THEN [kind |-> "ret", err |-> "transaction"]
    ELSE IF BigEndianUint16(aduResponse[3], aduResponse[4])
                # BigEndianUint16(aduRequest[3], aduRequest[4])
    THEN [kind |-> "ret", err |-> "protocol"]
    ELSE [kind |-> "ret", err |-> "nil"]
tcpVerify(aduRequest, aduResponse) ==
    IF Len(aduResponse) < 2 \/ Len(aduRequest) < 2 THEN [kind |-> "panic"]
    ELSE IF BigEndianUint16(aduResponse[1], aduResponse[2])
                # BigEndianUint16(aduRequest[1], aduRequest[2])
    THEN [kind |-> "ret", err |-> "transaction"]
    ELSE IF Len(aduResponse) < 4 \/ Len(aduRequest) < 4 THEN [kind |-> "panic"]
    ELSE IF BigEndianUint16(aduResponse[3], aduResponse[4])
                # BigEndianUint16(aduRequest[3], aduRequest[4])
    THEN [kind |-> "ret", err |-> "protocol"]
    ELSE IF Len(aduResponse) < 7 \/ Len(aduRequest) < 7 THEN [kind |-> "panic"]
    ELSE IF aduResponse[7] # aduRequest[7]
    THEN [kind |-> "ret", err |-> "unit"]
    ELSE [kind |-> "ret", err |-> "nil"]

----------------------------------------------------------------------------
(* Vendor serial packager: src/en_custom_client.go *)

FuncCodeReadCoils == 1
FuncCodeReadHoldingRegisters == 3
FuncCodeReadInputRegisters == 4
FuncCodeWriteSingleRegister == 6
FuncCodeWriteMultipleRegisters == 16

\* enRtuPackager.dataBlock: the values big endian, then the GunId
RECURSIVE ValueBytes(_)
ValueBytes(value) ==
    IF value = <<>> THEN <<>>
    ELSE PutUint16(Head(value)) \o ValueBytes(Tail(value))
dataBlock(value) == ValueBytes(value) \o <<GunId>>

\* enRtuPackager.Encode: the frame, or an error when it would be too long
enRtuEncode(unit, p) ==
    LET length == Len(p.Data) + 4 IN
    IF length > rtuMaxSize
    THEN [adu |-> <<>>, err |-> "length"]
    ELSE LET body == <<unit, p.FunctionCode>> \o p.Data
             checksum == crcValue(body)
         IN  [adu |-> body \o <<checksum % 256, checksum \div 256>>, err |-> "nil"]

\* removeElement(slice, i): slice[i] = slice[len(slice)-1], then drop the
\* last element; an index outside the slice panics
removeElementBroken(slice, i) ==
    IF Len(slice) = 0 \/ i >= Len(slice)
    THEN [panic |-> TRUE, slice |-> <<>>]
    ELSE [panic |-> FALSE, slice |-> SubSeq(slice, 1, Len(slice) - 1)]
removeElement(slice, i) ==
    IF Len(slice) = 0 \/ i >= Len(slice)
    THEN [panic |-> TRUE, slice |-> <<>>]
    ELSE [panic |-> FALSE,
          slice |-> SubSeq([slice EXCEPT ![i + 1] = slice[Len(slice)]],
                           1, Len(slice) - 1)]

\* the index enRtuPackager.Decode passes to removeElement, -1 when the
\* function code is not supported
RemoveIndex(f) ==
    IF f \in {FuncCodeReadCoils, FuncCodeReadInputRegisters,
              FuncCodeReadHoldingRegisters} THEN 1
    ELSE IF f = FuncCodeWriteSingleRegister THEN 2
    ELSE IF f = FuncCodeWriteMultipleRegisters THEN 4
    ELSE -1

\* the checksum in the last two bytes of a frame matches its other bytes
crcOK(a) ==
    /\ Len(a) >= 2
    /\ BigEndianUint16(a[Len(a)], a[Len(a) - 1]) = crcValue(SubSeq(a, 1, Len(a) - 2))

\* enRtuPackager.Decode
enRtuDecode(a) ==
    LET length == Len(a) IN
    IF length < 2 THEN [kind |-> "panic"]
    ELSE IF ~crcOK(a) THEN [kind |-> "ret", err |-> "crc", pdu |-> NoPdu]
    ELSE IF length < 4 THEN [kind |-> "panic"]
    ELSE
    LET f == a[2]
        data == SubSeq(a, 3, length - 2)
    IN  IF RemoveIndex(f) < 0
        THEN [kind |-> "ret", err |-> "function",
              pdu |-> [FunctionCode |-> f, Data |-> data]]
        ELSE LET r == removeElement(data, RemoveIndex(f)) IN
             IF r.panic THEN [kind |-> "panic"]
             ELSE [kind |-> "ret", err |-> "nil",
                   pdu |-> [FunctionCode |-> f, Data |-> r.slice]]

\* enRtuPackager.Verify: the minimum size, then the slave id
enRtuVerifyBroken(aduRequest, aduResponse) ==
    IF Len(aduResponse) < 1 \/ Len(aduRequest) < 1 THEN [kind |-> "panic"]
    ELSE IF aduResponse[1] # aduRequest[1]
    THEN [kind |-> "ret", err |-> "slave"]
    ELSE [kind |-> "ret", err |-> "nil"]
enRtuVerify(aduRequest, aduResponse) ==
    LET length == Len(aduResponse) IN
    IF length < rtuMinSize THEN [kind |-> "ret", err |-> "length"]
    ELSE IF Len(aduRequest) < 1 THEN [kind |-> "panic"]
    ELSE IF aduResponse[1] # aduRequest[1]
    THEN [kind |-> "ret", err |-> "slave"]
    ELSE [kind |-> "ret", err |-> "nil"]

----------------------------------------------------------------------------
(* The packagers at work: callers encode messages, frames are decoded *)

\* Encode calls made on one TCP handler
MaxEncodes == 3
\* length of the short payloads
MaxDataLen == 2
\* length of the short vendor payloads
MaxPayloadLen == 5
\* number of 16-bit values given to dataBlock
MaxValues == 2

ByteVals == {7, 255}
WordVals == {258, 65535}
UnitIds == {1, 17}
GunIds == {2, 9}
\* transaction counters a handler can have reached
TransactionIds == {Uint32(0, 0), Uint32(0, 65534), Uint32(65535, 65534)}
\* function codes of the messages given to the TCP Encode
TcpFunctions == {3, 16, 131}
\* function codes of the vendor frames: the five supported ones and two others
EnFunctions == {FuncCodeReadCoils, FuncCodeReadHoldingRegisters,
                FuncCodeReadInputRegisters, FuncCodeWriteSingleRegister,
                FuncCodeWriteMultipleRegisters, 5, 131}

\* all byte (or word) sequences of length at most len over vals
SeqsUpTo(vals, len) == UNION {[1..k -> vals] : k \in 0..len}

\* payloads of the messages given to the TCP Encode: short ones and the
\* longest that fits the frame, the first that does not
TcpDatas == SeqsUpTo(ByteVals, MaxDataLen)
            \cup {Fill(tcpMaxLength - tcpHeaderSize - 1, 7),
                  Fill(tcpMaxLength - tcpHeaderSize, 7)}

\* payloads of the vendor frames built by the caller (responses of a device)
EnDatas == SeqsUpTo(ByteVals, MaxPayloadLen)
           \cup {Fill(rtuMaxSize - 4, 7), Fill(rtuMaxSize - 3, 7)}

\* a frame as it can arrive: intact, with its last byte changed, or cut short
Received(a) ==
    IF a = <<>> THEN {a}
    ELSE {a,
          [a EXCEPT ![Len(a)] = (@ + 1) % 256],
          SubSeq(a, 1, Len(a) - 1)}

\* frame a with its byte i changed
Changed(a, i) == [a EXCEPT ![i] = (@ + 1) % 256]

\* responses given to Verify with the request a: the same bytes; one byte
\* changed, in the header, the function code, the first payload byte or
\* the last two bytes; one byte more; the first 0 to 3 bytes only
Responses(a) ==
    {a, a \o <<7>>}
    \cup {Changed(a, i) : i \in 1..Min(Len(a), tcpHeaderSize + 2)}
    \cup {Changed(a, i) : i \in {Len(a) - 1, Len(a)}}
    \cup {SubSeq(a, 1, k) : k \in 0..(rtuMinSize - 1)}

\* a frame of one byte and its checksum
ByteWithCrc(b) == LET c == crcValue(<<b>>) IN <<b, c % 256, c \div 256>>
\* frames below the minimum size of the serial framing: every frame of at
\* most 3 bytes over two byte values (255 255 is an empty frame and its
\* checksum), and two with a valid checksum
ShortFrames ==
    SeqsUpTo(ByteVals, rtuMinSize - 1) \cup {ByteWithCrc(b) : b \in ByteVals}

PackInit ==
    /\ variant = "tcp"
    /\ Parity = "E"
    /\ BaudRate = 0
    /\ line = NoLine
    /\ resp = [t \in Threads |-> NoResp]
    /\ IdleTimeout = 0
    /\ QueryDelayDuration = 0
    /\ Mu = "unlocked"
    /\ Conn = nil
    /\ opened = {}
    /\ sinceActivity = IdleT + 1
    /\ closeTimer = NoTimer
    /\ pending = 0
    /\ op = [t \in Threads |-> "none"]
    /\ pc = [t \in Threads |-> "idle"]
    /\ err = [t \in Threads |-> "nil"]
    /\ conn = [t \in Threads |-> nil]
    /\ n = [t \in Threads |-> 0]
    /\ readTo = [t \in Threads |-> 0]
    /\ lastAccess = [locked |-> TRUE]
    /\ lastIdle = [ran |-> FALSE, idle |-> 0, closed |-> FALSE]
    /\ handler \in {"tcp", "en"}
    /\ transactionId \in (IF handler = "tcp" THEN TransactionIds ELSE {Uint32(0, 0)})
    /\ issued = <<>>
    /\ enc = [t \in Threads |-> [pc |-> "idle", transactionId |-> Uint32(0, 0)]]
    /\ SlaveId \in UnitIds
    /\ GunId \in (IF handler = "en" THEN GunIds ELSE {0})
    /\ pdu = NoPdu
    /\ built = [by |-> "none"]
    /\ adu = <<>>
    /\ encErr = "nil"
    /\ rx = <<>>
    /\ out = [kind |-> "none"]
    /\ verified = NoVerify

\* tcpPackager.Encode, first half: the atomic increment of the transaction
\* id (tcp_client.go:59)
tcpEncodeAdd(t) ==
    /\ handler = "tcp"
    /\ enc[t].pc = "idle"
    /\ Len(issued) < MaxEncodes
    /\ transactionId' = AtomicAddUint32(transactionId, 1)
    /\ enc' = [enc EXCEPT ![t] = [pc |-> "frame", transactionId |-> transactionId']]
    /\ issued' = Append(issued, Uint16Of(transactionId'))
    /\ UNCHANGED <<handler, SlaveId, GunId, pdu, built, adu, encErr, rx, out,
                   verified>>
    /\ UNCHANGED sessionVars

\* tcpPackager.Encode, second half: the frame is written and returned
\* (tcp_client.go:56, 60-72); Encode returns no error
tcpEncodeFrame(t) ==
    /\ handler = "tcp"
    /\ enc[t].pc = "frame"
    /\ \E f \in TcpFunctions, d \in TcpDatas :
          LET p == [FunctionCode |-> f, Data |-> d] IN
          /\ pdu' = p
          /\ adu' = tcpEncode(enc[t].transactionId, SlaveId, p)
    /\ built' = [by |-> "caller"]
    /\ encErr' = "nil"
    /\ enc' = [enc EXCEPT ![t] = [pc |-> "idle", transactionId |-> Uint32(0, 0)]]
    /\ rx' = <<>>
    /\ out' = [kind |-> "none"]
    /\ verified' = NoVerify
    /\ UNCHANGED <<handler, transactionId, issued, SlaveId, GunId>>
    /\ UNCHANGED sessionVars

\* tcpPackager.Decode of a frame that arrived (a frame is followed through
\* one call of Verify or of Decode)
tcpDecodeCall ==
    /\ handler = "tcp"
    /\ adu # <<>>
    /\ out.kind = "none" /\ verified.kind = "none"
    /\ \E a \in Received(adu) :
          /\ rx' = a
          /\ out' = tcpDecode(a)
    /\ UNCHANGED <<handler, transactionId, issued, enc, SlaveId, GunId, pdu,
                   built, adu, encErr, verified>>
    /\ UNCHANGED sessionVars

\* enRtuPackager.Encode of a message whose data dataBlock built (a vendor
\* handler is followed through one Encode and one Decode)
enRtuEncodeBlock ==
    /\ handler = "en"
    /\ built.by = "none"
    /\ \E f \in EnFunctions, value \in SeqsUpTo(WordVals, MaxValues) :
          LET p == [FunctionCode |-> f, Data |-> dataBlock(value)]
              r == enRtuEncode(SlaveId, p)
          IN  /\ pdu' = p
              /\ built' = [by |-> "dataBlock", value |-> value]
              /\ adu' = r.adu
              /\ encErr' = r.err
    /\ rx' = <<>>
    /\ out' = [kind |-> "none"]
    /\ verified' = NoVerify
    /\ UNCHANGED <<handler, transactionId, issued, enc, SlaveId, GunId>>
    /\ UNCHANGED sessionVars

\* enRtuPackager.Encode of a message whose data the caller built: this is
\* also how a device frames its responses
enRtuEncodeData ==
    /\ handler = "en"
    /\ built.by = "none"
    /\ \E f \in EnFunctions, d \in EnDatas :
          LET p == [FunctionCode |-> f, Data |-> d]
              r == enRtuEncode(SlaveId, p)
          IN  /\ pdu' = p
              /\ adu' = r.adu
              /\ encErr' = r.err
    /\ built' = [by |-> "caller"]
    /\ rx' = <<>>
    /\ out' = [kind |-> "none"]
    /\ verified' = NoVerify
    /\ UNCHANGED <<handler, transactionId, issued, enc, SlaveId, GunId>>
    /\ UNCHANGED sessionVars

\* enRtuPackager.Decode of a frame that arrived
enRtuDecodeCall ==
    /\ handler = "en"
    /\ adu # <<>>
    /\ out.kind = "none" /\ verified.kind = "none"
    /\ \E a \in Received(adu) :
          /\ rx' = a
          /\ out' = enRtuDecode(a)
    /\ UNCHANGED <<handler, transactionId, issued, enc, SlaveId, GunId, pdu,
                   built, adu, encErr, verified>>
    /\ UNCHANGED sessionVars

\* enRtuPackager.Decode of a response below the minimum size
enRtuDecodeShort ==
    /\ handler = "en"
    /\ adu # <<>>
    /\ out.kind = "none" /\ verified.kind = "none"
    /\ \E a \in ShortFrames :
          /\ rx' = a
          /\ out' = enRtuDecode(a)
    /\ UNCHANGED <<handler, transactionId, issued, enc, SlaveId, GunId, pdu,
                   built, adu, encErr, verified>>
    /\ UNCHANGED sessionVars

\* tcpPackager.Verify of a response to the request Encode built
tcpVerifyCall ==
    /\ handler = "tcp"
    /\ adu # <<>>
    /\ out.kind = "none" /\ verified.kind = "none"
    /\ \E r \in Responses(adu) :
          LET v == tcpVerify(adu, r) IN
          verified' = [kind |-> v.kind,
                       err |-> IF v.kind = "ret" THEN v.err ELSE "",
                       response |-> r]
    /\ UNCHANGED <<handler, transactionId, issued, enc, SlaveId, GunId, pdu,
                   built, adu, encErr, rx, out>>
    /\ UNCHANGED sessionVars

\* enRtuPackager.Verify of a response to the request Encode built
enRtuVerifyCall ==
    /\ handler = "en"
    /\ adu # <<>>
    /\ out.kind = "none" /\ verified.kind = "none"
    /\ \E r \in Responses(adu) :
          LET v == enRtuVerify(adu, r) IN
          verified' = [kind |-> v.kind,
                       err |-> IF v.kind = "ret" THEN v.err ELSE "",
                       response |-> r]
    /\ UNCHANGED <<handler, transactionId, issued, enc, SlaveId, GunId, pdu,
                   built, adu, encErr, rx, out>>
    /\ UNCHANGED sessionVars

PackNext ==
    \/ \E t \in Threads : tcpEncodeAdd(t) \/ tcpEncodeFrame(t)
    \/ tcpDecodeCall
    \/ enRtuEncodeBlock
    \/ enRtuEncodeData
    \/ enRtuDecodeCall
    \/ enRtuDecodeShort
    \/ tcpVerifyCall
    \/ enRtuVerifyCall

PackSpec == PackInit /\ [][PackNext]_vars

----------------------------------------------------------------------------
(* Claims about the packagers *)

\* C6: the transaction ids handed to the Encode calls of one handler, in
\* the order of the atomic add, each are the previous one plus one modulo
\* 65536, no two of them are equal, and a frame carries one of them.
C6_TransactionIdsSuccessive ==
    /\ \A i \in 1..(Len(issued) - 1) : issued[i + 1] = (issued[i] + 1) % 65536
    /\ \A i, j \in 1..Len(issued) : i # j => issued[i] # issued[j]
    /\ (handler = "tcp" /\ adu # <<>>) =>
          \E i \in 1..Len(issued) : BigEndianUint16(adu[1], adu[2]) = issued[i]

\* two callers are inside Encode at once and the id wrapped from 65535 to 0
C6_Witness ==
    /\ \A t \in Threads : enc[t].pc = "frame"
    /\ \E i \in 1..(Len(issued) - 1) : issued[i] = 65535 /\ issued[i + 1] = 0

\* C7: the TCP Encode returns an error for a message whose frame would be
\* longer than tcpMaxLength.
C7_TcpEncodeRejectsOversize ==
    (handler = "tcp" /\ built.by = "caller"
        /\ tcpHeaderSize + 1 + Len(pdu.Data) > tcpMaxLength)
    => encErr # "nil"

\* the vendor function codes Decode supports
Supported == {FuncCodeReadCoils, FuncCodeReadInputRegisters,
              FuncCodeReadHoldingRegisters, FuncCodeWriteSingleRegister,
              FuncCodeWriteMultipleRegisters}
\* the payload of a serial frame: the bytes between function code and checksum
Payload(a) == SubSeq(a, 3, Len(a) - 2)
\* the vendor Decode was given a frame of at least the minimum size whose
\* checksum is valid
DecodedValid ==
    /\ handler = "en"
    /\ out.kind # "none"
    /\ Len(rx) >= rtuMinSize
    /\ crcOK(rx)

\* the number of bytes the claim says Decode strips
StripCount(f) ==
    IF f = FuncCodeWriteSingleRegister THEN 2
    ELSE IF f = FuncCodeWriteMultipleRegisters THEN 4
    ELSE 1
\* the index of the byte Decode removes
StripIndex(f) ==
    IF f = FuncCodeWriteSingleRegister THEN 2
    ELSE IF f = FuncCodeWriteMultipleRegisters THEN 4
    ELSE 1

C9_TcpRoundTrip ==
    (handler = "tcp" /\ out.kind # "none" /\ rx = adu
        /\ Len(pdu.Data) <= tcpMaxLength - tcpHeaderSize - 1)
    => /\ out.kind = "ret" /\ out.err = "nil"
       /\ out.pdu.FunctionCode = pdu.FunctionCode
       /\ out.pdu.Data = pdu.Data

\* a message with 252 data bytes went through Encode and Decode, under a
\* transaction id that had wrapped
C9_Witness ==
    /\ handler = "tcp" /\ rx = adu /\ out.kind = "ret"
    /\ Len(pdu.Data) = tcpMaxLength - tcpHeaderSize - 1
    /\ BigEndianUint16(adu[1], adu[2]) = 0

\* C10: Decode of the frame Encode made of a message with a supported
\* function code and data built by dataBlock succeeds and returns the
\* function code and the value bytes, in order, without the selector.
C10_VendorRoundTrip ==
    (handler = "en" /\ built.by = "dataBlock" /\ pdu.FunctionCode \in Supported
        /\ out.kind # "none" /\ rx = adu)
    => /\ out.kind = "ret" /\ out.err = "nil"
       /\ out.pdu.FunctionCode = pdu.FunctionCode
       /\ out.pdu.Data = ValueBytes(built.value)

\* C11: the vendor Decode of a frame shorter than 4 bytes returns a size
\* error and does not panic.
C11_DecodeRejectsShort ==
    (handler = "en" /\ out.kind # "none" /\ Len(rx) < rtuMinSize)
    => (out.kind = "ret" /\ out.err = "size")

\* the bytes of a frame Verify compares: transaction id, protocol id, unit id
Correlation(a) == <<a[1], a[2], a[3], a[4], a[7]>>

\* C14: the TCP Verify of a response that has a whole header returns an
\* error exactly when its transaction id, protocol id or unit id differs
\* from the request's; length, function code and payload play no part.
C14_TcpVerifyCorrelates ==
    (handler = "tcp" /\ verified.kind # "none"
        /\ Len(verified.response) >= tcpHeaderSize)
    => /\ verified.kind = "ret"
       /\ verified.err # "nil" <=> Correlation(verified.response) # Correlation(adu)

\* a response with another function code than the request was accepted
C14_Witness ==
    /\ handler = "tcp" /\ verified.kind = "ret" /\ verified.err = "nil"
    /\ Len(verified.response) = Len(adu)
    /\ verified.response[tcpHeaderSize + 1] # adu[tcpHeaderSize + 1]

\* C15: the vendor Verify fails when the response is shorter than 4 bytes
\* or its unit id differs from the request's, and succeeds otherwise,
\* whatever the checksum bytes are.
C15_VendorVerify ==
    (handler = "en" /\ verified.kind # "none")
    => /\ verified.kind = "ret"
       /\ verified.err # "nil" <=>
             (Len(verified.response) < rtuMinSize \/ verified.response[1] # adu[1])

\* a response with a wrong checksum was accepted
C15_Witness ==
    /\ handler = "en" /\ verified.kind = "ret" /\ verified.err = "nil"
    /\ ~crcOK(verified.response)

----------------------------------------------------------------------------
(* The line delay of the serial-over-TCP Send: src/unnamed/part_000 *)

\* rtuOverTcpTransporter.calculateDelay, in microseconds (integer division)
calculateDelayBroken(baudRate, chars) ==
    LET fixed == baudRate <= 0 \/ baudRate >= 19200
        characterDelay == IF fixed THEN 750 ELSE 15000000 \div baudRate
        frameDelay == IF fixed THEN 1750 ELSE 35000000 \div baudRate
    IN  characterDelay * chars + frameDelay
calculateDelay(baudRate, chars) ==
    LET fixed == baudRate <= 0 \/ baudRate > 19200
        characterDelay == IF fixed THEN 750 ELSE 15000000 \div baudRate
        frameDelay == IF fixed THEN 1750 ELSE 35000000 \div baudRate
    IN  characterDelay * chars + frameDelay

\* baud rates a handler is constructed with
BaudRates == {-1, 0, 300, 1200, 9600, 19200, 19201, 115200}
\* lengths of the requests written
RequestLengths == {4, 8}

\* a serial-over-TCP handler as its constructor leaves it
\* (en_custom_client.go:34-41), before any Send
DelayInit ==
    /\ variant = "rtuOverTcp"
    /\ Parity = "E"
    /\ BaudRate \in BaudRates
    /\ line = NoLine
    /\ resp = [t \in Threads |-> NoResp]
    /\ IdleTimeout = IdleT
    /\ QueryDelayDuration = 0
    /\ Mu = "unlocked"
    /\ Conn = nil
    /\ opened = {}
    /\ sinceActivity = IdleT + 1
    /\ closeTimer = NoTimer
    /\ pending = 0
    /\ op = [t \in Threads |-> "none"]
    /\ pc = [t \in Threads |-> "idle"]
    /\ err = [t \in Threads |-> "nil"]
    /\ conn = [t \in Threads |-> nil]
    /\ n = [t \in Threads |-> 0]
    /\ readTo = [t \in Threads |-> 0]
    /\ lastAccess = [locked |-> TRUE]
    /\ lastIdle = [ran |-> FALSE, idle |-> 0, closed |-> FALSE]
    /\ PackIdle

\* Send wrote the request and estimated the length of the response
\* (part_000:62-68)
LineWrite ==
    /\ line.pc = "idle"
    /\ \E length \in RequestLengths, bytesToRead \in Estimates :
          line' = [pc |-> "written", chars |-> length + bytesToRead, us |-> 0]
    /\ UNCHANGED <<variant, Parity, BaudRate, resp, IdleTimeout,
                   QueryDelayDuration, Mu, Conn, opened, sinceActivity,
                   closeTimer, pending, op, pc, err, conn, n, readTo,
                   lastAccess, lastIdle>>
    /\ UNCHANGED packVars

\* time.Sleep(mb.calculateDelay(len(aduRequest) + bytesToRead)) (part_000:69)
LineSleep ==
    /\ line.pc = "written"
    /\ line' = [line EXCEPT !.pc = "slept",
                            !.us = calculateDelay(BaudRate, line.chars)]
    /\ UNCHANGED <<variant, Parity, BaudRate, resp, IdleTimeout,
                   QueryDelayDuration, Mu, Conn, opened, sinceActivity,
                   closeTimer, pending, op, pc, err, conn, n, readTo,
                   lastAccess, lastIdle>>
    /\ UNCHANGED packVars

\* the first read of the response (part_000:76)
LineRead ==
    /\ line.pc = "slept"
    /\ line' = [line EXCEPT !.pc = "read"]
    /\ UNCHANGED <<variant, Parity, BaudRate, resp, IdleTimeout,
                   QueryDelayDuration, Mu, Conn, opened, sinceActivity,
                   closeTimer, pending, op, pc, err, conn, n, readTo,
                   lastAccess, lastIdle>>
    /\ UNCHANGED packVars

\* Send returns; the next Send starts from the write again
LineReturn ==
    /\ line.pc = "read"
    /\ line' = NoLine
    /\ UNCHANGED <<variant, Parity, BaudRate, resp, IdleTimeout,
                   QueryDelayDuration, Mu, Conn, opened, sinceActivity,
                   closeTimer, pending, op, pc, err, conn, n, readTo,
                   lastAccess, lastIdle>>
    /\ UNCHANGED packVars

DelayNext == LineWrite \/ LineSleep \/ LineRead \/ LineReturn

DelaySpec == DelayInit /\ [][DelayNext]_vars

\* C18: the delay slept is characterDelay * chars + frameDelay, with
\* characterDelay = 15000000 / baud and frameDelay = 35000000 / baud
\* (integer division) for 0 < baud <= 19200 and 750, 1750 otherwise:
\* 16141 for 8 chars at 9600 baud, 7750 for 8 chars at baud 0. The sleep is
\* made after the write and before the first read, for chars = request
\* length + estimated response length.
C18_LineDelay ==
    /\ line.pc = "written" => line.us = 0
    /\ line.pc \in {"slept", "read"} =>
          /\ line.us = IF 0 < BaudRate /\ BaudRate <= 19200
                       THEN (15000000 \div BaudRate) * line.chars
                                + (35000000 \div BaudRate)
                       ELSE 750 * line.chars + 1750
          /\ line.us > 0
          /\ (BaudRate = 9600 /\ line.chars = 8) => line.us = 16141
          /\ (BaudRate = 0 /\ line.chars = 8) => line.us = 7750
          /\ \E length \in RequestLengths, bytesToRead \in Estimates :
                line.chars = length + bytesToRead

\* the first read of a Send at 9600 baud came after a sleep of 16141
\* microseconds for 8 chars
C18_Witness ==
    /\ line.pc = "read"
    /\ BaudRate = 9600 /\ line.chars = 8 /\ line.us = 16141

\* C22: the vendor Decode of a frame of at least 4 bytes with a valid
\* checksum and a supported function code does not panic, whatever the
\* length of the payload.
C22_DecodeNeverPanics ==
    (DecodedValid /\ rx[2] \in Supported) => out.kind # "panic"
====
